---- MODULE Spec2Model ----
(***************************************************************************)
(* The multi-pass shader pipeline of Shader Studio.                        *)
(*                                                                         *)
(* Three ShaderStudio components exist in the repository; `component`      *)
(* says which one is mounted:                                              *)
(*   "modular"    - ShaderStudio built from the hooks useWebGLRenderer     *)
(*                  (WebGLRenderer.tsx) and useVideoManager; its           *)
(*                  start/stop effect calls render() directly;             *)
(*   "monolithic" - components/ShaderStudio.tsx, which holds setupWebGL    *)
(*                  and render itself and starts the loop through          *)
(*                  setTimeout(startRender, 16);                           *)
(*   "canvas"     - the ShaderStudio that takes its frames from the        *)
(*                  offscreen canvas of useVideoCanvasRenderer; only its   *)
(*                  frame source is modelled, the renderer it imports is   *)
(*                  not part of the sources.                               *)
(*                                                                         *)
(* One action is one event-loop task: a user handler (or a media event)    *)
(* together with the React commit and the effects it triggers, a timer     *)
(* callback, or an animation-frame callback.                               *)
(***************************************************************************)
EXTENDS Integers, Sequences, FiniteSets, TLC

VARIABLES
  component,          \* which ShaderStudio component this is
  mounted,            \* the component is mounted (its refs are set)
  shaders,            \* useState<Shader[]>: the pass list
  objects,            \* useState<CanvasObject[]>: the placed objects
  isPlaying,          \* useState(false)
  isVideoLoaded,      \* useState(false)
  glRef,              \* glRef.current is set: setupWebGL obtained a context
  programsRef,        \* programsRef.current: the linked programs
  animationFrameRef,  \* animationFrameRef.current: 0 is undefined
  rafQueue,           \* requestAnimationFrame callbacks not yet run
  timeouts,           \* setTimeout(startRender, 16) callbacks not yet run
  clock,              \* Date.now() / 1000
  playbackTime,       \* seconds of running playback (video.currentTime)
  draws,              \* gl.drawArrays calls issued by the task just run
  tick,               \* what the render call of the task just run did
  lastDraw,           \* readings taken at the most recent tick that drew
  edits,              \* number of list mutations made so far
  videoReady,         \* useVideoCanvasRenderer: useState(false)
  usingFallback,      \* useVideoCanvasRenderer: useState(false)
  videoFrameRef,      \* its animationFrameRef holds a pending renderFrame
  playPromise,        \* a videoElement.play() promise is pending
  srcObject,          \* useVideoManager: video.srcObject is the fallback stream
  animationId,        \* fallback animate callbacks pending (one per chain)
  uniforms,           \* the u_object{i}_* values each linked program holds
  glObjects,          \* live GPU objects created by setupWebGL
  dateNow             \* Date.now() as read by the latest add handler

vars == <<component, shaders, objects, isPlaying, isVideoLoaded, glRef,
          programsRef, animationFrameRef, rafQueue, timeouts, clock, playbackTime,
          draws, tick, lastDraw, edits, mounted, videoReady, usingFallback,
          videoFrameRef, playPromise, srcObject, animationId, uniforms,
          glObjects, dateNow>>

\* The state of the frame source apart from the ready flag
sourceVars == <<videoReady, usingFallback, videoFrameRef, playPromise,
                srcObject, animationId>>

----------------------------------------------------------------------------
(* Bounds *)

MaxEdits == 2      \* pass-list and object-list mutations in one behaviour
MaxPending == 2    \* animation-frame callbacks (and timers) alive at once
MaxClock == 2      \* clock readings
MaxCustom == 0     \* custom passes in a pass list arranged before playing
MaxMoves == 1      \* drag-and-drop moves in one behaviour of SpecReorder
MaxObjects == 2    \* objects placed before playing; u_object0.. a custom source declares
MaxChanges == 1    \* object-list changes in one behaviour of SpecObjects

----------------------------------------------------------------------------
(* Program constants *)

PoolSize == 3       \* for (let i = 0; i < 3; i++): pooled textures
PingPong == 2       \* textureIndex % 2

Screen == -1        \* gl.bindFramebuffer(gl.FRAMEBUFFER, null)
VideoTexture == PoolSize   \* the per-tick texture; pool textures are 0..PoolSize-1
SourceFrame == -1   \* content of the per-tick texture: the uploaded frame
NoTime == -1        \* a draw call that supplies no u_time

\* Fragment sources a pass can carry; "invalid" fails to compile or link.
FragmentSources == {"valid", "edited", "invalid"}

NoProgram == [id |-> "none", src |-> "none"]
PassThrough == [id |-> "identity", src |-> "simpleFragmentShader"]

defaultShaders ==
  << [id |-> "grayscale",  fragmentShader |-> "valid", enabled |-> TRUE],
     [id |-> "brightness", fragmentShader |-> "valid", enabled |-> FALSE],
     [id |-> "blur",       fragmentShader |-> "valid", enabled |-> FALSE],
     [id |-> "chromatic",  fragmentShader |-> "valid", enabled |-> FALSE] >>

\* Date.now().toString() of successive add handlers
CustomIds == <<"t1", "t2", "t3", "t4", "t5", "t6">>

----------------------------------------------------------------------------
(* Pass Compiler: createShader, createProgram, setupWebGL *)

\* createShader followed by createProgram for one fragment source: the
\* linked program, or null when COMPILE_STATUS or LINK_STATUS is false.
createProgram(shader) ==
  IF shader.fragmentShader = "invalid"
    THEN NoProgram
    ELSE [id |-> shader.id, src |-> shader.fragmentShader]

\* shaders.forEach(...): a program is pushed only when it linked, so the
\* array holds the linked programs in list order, without gaps.
RECURSIVE CompilePrograms(_)
CompilePrograms(list) ==
  IF list = <<>> THEN <<>>
  ELSE LET rest == CompilePrograms(SubSeq(list, 1, Len(list) - 1))
           program == createProgram(list[Len(list)])
       IN IF program # NoProgram THEN Append(rest, program) ELSE rest

\* setupWebGL: the previous programs are deleted and programsRef.current is
\* rebuilt from the pass list the callback closes over.
setupWebGL(list) == CompilePrograms(list)

\* The GPU objects alive before the first setupWebGL run
NoObjects == [programs |-> 0, shaders |-> 0, buffers |-> 0,
              textures |-> 0, framebuffers |-> 0]

\* The live GPU objects after a setupWebGL run: the previous programs, pool
\* textures and framebuffers are deleted; the vertex shader, the fragment
\* shaders that compiled and the quad buffer of the run are created and no
\* deleteShader or deleteBuffer call follows.
setupObjects(live, list) ==
  [programs |-> Len(CompilePrograms(list)),
   shaders |-> live.shaders + 1 + Len(CompilePrograms(list)),
   buffers |-> live.buffers + 1,
   textures |-> PoolSize,
   framebuffers |-> PoolSize]

----------------------------------------------------------------------------
(* Compositor: the pass loop of render *)

\* shaders.findIndex(s => s.id === id), 1-based; 0 stands for -1
RECURSIVE findIndexFrom(_, _, _)
findIndexFrom(list, id, i) ==
  IF i > Len(list) THEN 0
  ELSE IF list[i].id = id THEN i
  ELSE findIndexFrom(list, id, i + 1)

findIndex(list, id) == findIndexFrom(list, id, 1)

\* programsRef.current[programIndex]; undefined outside the array
programAt(programs, programIndex) ==
  IF programIndex \in 1..Len(programs) THEN programs[programIndex] ELSE NoProgram

\* framebuffersRef.current[textureIndex % 2]
outputSlot(textureIndex) == textureIndex % PingPong

\* Mutant: the next pass is handed the other pooled texture.
nextTexture_Other(textureIndex) == (textureIndex + 1) % PingPong

\* currentTexture = texturesRef.current[textureIndex % 2]
nextTexture(textureIndex) == textureIndex % PingPong

\* Mutant: the slot index is not advanced between passes.
nextTextureIndex_Stuck(textureIndex) == textureIndex

\* textureIndex++
nextTextureIndex(textureIndex) == textureIndex + 1

\* Mutant: u_time follows the playback position and freezes while paused.
uTime_Playback(now, playback) == playback

\* Mutant: u_time is wrapped to keep it small.
uTime_Wrapped(now, playback) == now % 2

\* gl.uniform1f(u_time, Date.now() / 1000): the value supplied as u_time,
\* given the clock reading and the playback position at the draw
uTime(now, playback) == now

\* The texture attached to a pooled framebuffer (framebufferTexture2D in
\* setupWebGL attaches texture i to framebuffer i).
attachedTexture(framebuffer) == framebuffer

\* The loop state: currentTexture, textureIndex, what each pool texture
\* holds (0: nothing written on this tick, k: the image written by the k-th
\* draw call of this tick) and the draw calls issued so far.
loopStart ==
  [currentTexture |-> VideoTexture, textureIndex |-> 0,
   content |-> [t \in 0..(PoolSize - 1) |-> 0], draws |-> <<>>]

\* What the texture bound as u_texture holds
held(st, texture) ==
  IF texture = VideoTexture THEN SourceFrame ELSE st.content[texture]

\* One iteration of enabledShaders.forEach((shader, index) => ...);
\* index is 1-based, so "index < enabledShaders.length - 1" reads index < n.
passStep(list, programs, enabledShaders, index, st, now, playback) ==
  LET shader == enabledShaders[index]
      program == programAt(programs, findIndex(list, shader.id))
      notLast == index < Len(enabledShaders)
      target == IF notLast THEN outputSlot(st.textureIndex) ELSE Screen
      draw == [pass |-> shader.id, program |-> program,
               input |-> st.currentTexture,
               inputHolds |-> held(st, st.currentTexture),
               output |-> target, time |-> uTime(now, playback)]
      n == Len(st.draws) + 1
  IN IF program = NoProgram THEN st
     ELSE [currentTexture |-> IF notLast THEN nextTexture(st.textureIndex)
                                         ELSE st.currentTexture,
           textureIndex |-> IF notLast THEN nextTextureIndex(st.textureIndex)
                                       ELSE st.textureIndex,
           content |-> IF target # Screen
                         THEN [st.content EXCEPT ![attachedTexture(target)] = n]
                         ELSE st.content,
           draws |-> Append(st.draws, draw)]

RECURSIVE passLoop(_, _, _, _, _, _)
passLoop(list, programs, enabledShaders, index, now, playback) ==
  IF index = 0 THEN loopStart
  ELSE passStep(list, programs, enabledShaders, index,
                passLoop(list, programs, enabledShaders, index - 1, now, playback),
                now, playback)

\* Mutant: every pass of the list is taken, enabled or not.
filterEnabled_All(list) == list

\* shaders.filter(shader => shader.enabled)
filterEnabled(list) == SelectSeq(list, LAMBDA s : s.enabled)

\* The draw calls of one render call whose texImage2D succeeded.
renderPasses(list, programs, now, playback) ==
  LET enabledShaders == filterEnabled(list)
  IN IF Len(enabledShaders) = 0
       THEN << [pass |-> "identity", program |-> PassThrough,
                input |-> VideoTexture, inputHolds |-> SourceFrame,
                output |-> Screen, time |-> NoTime] >>
       ELSE passLoop(list, programs, enabledShaders, Len(enabledShaders),
                     now, playback).draws

----------------------------------------------------------------------------
(* Uniform Binder: the object-based uniforms of render *)

CanvasWidth == 800    \* <canvas width={800}
CanvasHeight == 450   \* height={450}

\* An exact fraction n / d (the code computes in floating point)
Ratio(n, d) == <<n, d>>

SameRatio(a, b) == a[1] * b[2] = b[1] * a[2]

\* The value of one hexadecimal digit; -1 for any other character
hexDigit(c) ==
  CASE c = "0" -> 0 [] c = "1" -> 1 [] c = "2" -> 2 [] c = "3" -> 3
    [] c = "4" -> 4 [] c = "5" -> 5 [] c = "6" -> 6 [] c = "7" -> 7
    [] c = "8" -> 8 [] c = "9" -> 9 [] c = "a" -> 10 [] c = "b" -> 11
    [] c = "c" -> 12 [] c = "d" -> 13 [] c = "e" -> 14 [] c = "f" -> 15
    [] OTHER -> -1

NaN == -1

\* parseInt(text, 16) of a text of at most two characters: the leading
\* hexadecimal digits are read, NaN when there is none.
parseInt(text) ==
  IF Len(text) = 0 \/ hexDigit(text[1]) = -1 THEN NaN
  ELSE IF Len(text) = 1 \/ hexDigit(text[2]) = -1 THEN hexDigit(text[1])
  ELSE 16 * hexDigit(text[1]) + hexDigit(text[2])

\* color.replace('#', ''): the first '#' is removed
replaceHash(color) ==
  IF \E k \in 1..Len(color) : color[k] = "#"
    THEN LET first == CHOOSE k \in 1..Len(color) :
                        color[k] = "#" /\ \A m \in 1..(k - 1) : color[m] # "#"
         IN SubSeq(color, 1, first - 1) \o SubSeq(color, first + 1, Len(color))
    ELSE color

\* text.substr(start, 2), start counted from 0
substr(text, start) ==
  SubSeq(text, start + 1, IF start + 2 <= Len(text) THEN start + 2 ELSE Len(text))

\* One colour channel: parseInt(color.substr(start, 2), 16) / 255
channel(color, start) ==
  LET byte == parseInt(substr(replaceHash(color), start))
  IN IF byte = NaN THEN NaN ELSE Ratio(byte, 255)

\* Mutant: the green and blue bytes are read from the wrong offsets.
objectColor_Shifted(color) == <<channel(color, 0), channel(color, 1), channel(color, 2)>>

\* gl.uniform3f(colorLocation, r, g, b)
objectColor(color) == <<channel(color, 0), channel(color, 2), channel(color, 4)>>

\* Mutant: the vertical axis is not flipped.
objectPos_Unflipped(obj) ==
  << Ratio(2 * obj.x + obj.width, 2 * CanvasWidth),
     Ratio(2 * obj.y + obj.height, 2 * CanvasHeight) >>

\* gl.uniform2f(posLocation, centerX / canvas.width,
\*              1.0 - centerY / canvas.height), with centerX = x + width / 2
\* and centerY = y + height / 2
objectPos(obj) ==
  << Ratio(2 * obj.x + obj.width, 2 * CanvasWidth),
     Ratio(2 * CanvasHeight - (2 * obj.y + obj.height), 2 * CanvasHeight) >>

\* gl.uniform2f(sizeLocation, width / canvas.width, height / canvas.height)
objectSize(obj) == << Ratio(obj.width, CanvasWidth), Ratio(obj.height, CanvasHeight) >>

\* The values of the uniforms of an object slot in a freshly linked
\* program: every uniform starts as zero.
ZeroUniforms ==
  [pos |-> <<Ratio(0, 1), Ratio(0, 1)>>, size |-> <<Ratio(0, 1), Ratio(0, 1)>>,
   rotation |-> 0, color |-> <<Ratio(0, 1), Ratio(0, 1), Ratio(0, 1)>>]

\* Mutant: a hidden object is bound as an empty one.
objectUniforms_Hidden(obj) ==
  IF obj.visible
    THEN [pos |-> objectPos(obj), size |-> objectSize(obj),
          rotation |-> obj.rotation, color |-> objectColor(obj.color)]
    ELSE ZeroUniforms

\* The values bound to u_object{i}_pos, _size, _rotation and _color for one
\* object; obj.visible is not read.
objectUniforms(obj) ==
  [pos |-> objectPos(obj), size |-> objectSize(obj),
   rotation |-> obj.rotation, color |-> objectColor(obj.color)]

\* The u_object{i}_* uniforms of a program before any gl.uniform call
Unbound == [i \in 1..MaxObjects |-> ZeroUniforms]

\* The uniform state of freshly linked programs
unboundPrograms(programs) == [k \in 1..Len(programs) |-> Unbound]

\* getUniformLocation(program, `u_object${objIndex}_...`) is not null: the
\* shipped sources declare no object uniform; a source written in the shader
\* editor declares those of the first MaxObjects objects.
declaresObject(program, objIndex) ==
  program.src = "edited" /\ objIndex < MaxObjects

\* Mutant: the uniform names are counted from 1.
uniformSlot_FromOne(objIndex) == objIndex + 2

\* `u_object${objIndex}_pos`: the slot (1-based here) the forEach index names
uniformSlot(objIndex) == objIndex + 1

\* objects.forEach((obj, objIndex) => ...) for one program in use: the
\* values the program holds after the loop.  A uniform keeps its value
\* until it is set again or the program is deleted.
RECURSIVE bindObjects(_, _, _, _)
bindObjects(program, slots, objs, n) ==
  IF n = 0 THEN slots
  ELSE LET before == bindObjects(program, slots, objs, n - 1)
           objIndex == n - 1
       IN IF declaresObject(program, objIndex) /\ uniformSlot(objIndex) \in DOMAIN before
            THEN [before EXCEPT ![uniformSlot(objIndex)] = objectUniforms(objs[n])]
            ELSE before

\* The uniform state after a render call that issued the draw calls ds with
\* the pass list and object list of its closure: every program a draw call
\* used went through the object loop.
bindUniforms(unis, programs, cb, ds) ==
  [k \in 1..Len(programs) |->
     IF \E d \in 1..Len(ds) : findIndex(cb.shaders, ds[d].pass) = k
       THEN bindObjects(programs[k], unis[k], cb.objects, Len(cb.objects))
       ELSE unis[k]]

\* drawObjects: the objects painted on the 2-D overlay
drawObjects(objs, objectsVisible) ==
  IF objectsVisible THEN SelectSeq(objs, LAMBDA o : o.visible) ELSE <<>>

----------------------------------------------------------------------------
(* Render loop: render, requestAnimationFrame, cancelAnimationFrame *)

\* The values a render callback closes over (its useCallback dependencies).
Closure(list, objs, playing, loaded) ==
  [shaders |-> list, objects |-> objs, isPlaying |-> playing,
   isVideoLoaded |-> loaded]

QueuedIds(queue) == {queue[i].id : i \in 1..Len(queue)}

\* The handle requestAnimationFrame returns: a positive integer that no
\* pending callback carries and that differs from the handle still stored.
requestId(queue, ref) ==
  CHOOSE n \in 1..(Len(queue) + 2) :
    /\ n \notin QueuedIds(queue) \cup {ref}
    /\ \A m \in 1..(n - 1) : m \in QueuedIds(queue) \cup {ref}

requestAnimationFrame(queue, ref, cb) ==
  Append(queue, [id |-> requestId(queue, ref), cb |-> cb])

\* cancelAnimationFrame(id): no effect when the callback already ran
cancelAnimationFrame(queue, id) == SelectSeq(queue, LAMBDA e : e.id # id)

\* "if (isPlaying) animationFrameRef.current = requestAnimationFrame(render)"
reschedule(cb, queue, ref) ==
  IF cb.isPlaying
    THEN [queue |-> requestAnimationFrame(queue, ref, cb),
          ref |-> requestId(queue, ref)]
    ELSE [queue |-> queue, ref |-> ref]

\* const videoTexture = gl.createTexture(): one more live per-tick texture
createTexture(live) == live + 1

\* gl.deleteTexture(videoTexture) after the pass loop
deleteTexture(live) == live - 1

\* useWebGLRenderer.render.  gl says that glRef, canvasRef and videoRef are
\* all set (the canvas and video refs are set while mounted); the first
\* early return and the catch around texImage2D request the next frame
\* while the closure is playing.
render(cb, programs, queue, ref, uploadOk, now, playback, gl) ==
  LET again == reschedule(cb, queue, ref)
  IN IF ~gl
       THEN [status |-> "notReady", draws |-> <<>>, sourceTextures |-> 0,
             queue |-> again.queue, ref |-> again.ref]
     ELSE IF ~uploadOk
       THEN [status |-> "uploadFailed", draws |-> <<>>,
             sourceTextures |-> createTexture(0),
             queue |-> again.queue, ref |-> again.ref]
       ELSE [status |-> "rendered",
             draws |-> renderPasses(cb.shaders, programs, now, playback),
             sourceTextures |-> deleteTexture(createTexture(0)),
             queue |-> again.queue, ref |-> again.ref]

\* render of the monolithic ShaderStudio: returns at once when a ref is null
\* or the closure's isVideoLoaded is false and, without rescheduling, when
\* the upload throws.
renderMonolithic(cb, programs, queue, ref, uploadOk, now, playback, gl) ==
  LET again == reschedule(cb, queue, ref)
  IN IF ~gl \/ ~cb.isVideoLoaded
       THEN [status |-> "notReady", draws |-> <<>>, sourceTextures |-> 0,
             queue |-> queue, ref |-> ref]
     ELSE IF ~uploadOk
       THEN [status |-> "uploadFailed", draws |-> <<>>,
             sourceTextures |-> createTexture(0), queue |-> queue, ref |-> ref]
     ELSE [status |-> "rendered",
           draws |-> renderPasses(cb.shaders, programs, now, playback),
           sourceTextures |-> deleteTexture(createTexture(0)),
           queue |-> again.queue, ref |-> again.ref]

----------------------------------------------------------------------------
(* Observation of the task just run *)

NoTick == [status |-> "none", fresh |-> TRUE, readsCurrent |-> TRUE,
           sourceTextures |-> 0, prevTime |-> NoTime,
           wallSince |-> 0, playedSince |-> 0]

\* The draw calls that supply u_time (the pass-through draw has no u_time).
TimedDraws(ds) == SelectSeq(ds, LAMBDA d : d.time # NoTime)

\* Record a render call: its draw calls, whether the pass list and object
\* list it closed over are the current ones, and how far the clock and the
\* playback position moved since the previous tick that supplied u_time.
Observe(r, cb, list, objs, playing, loaded) ==
  LET timed == TimedDraws(r.draws)
  IN /\ draws' = r.draws
     /\ tick' = [status |-> r.status,
                 fresh |-> cb = Closure(list, objs, playing, loaded),
                 readsCurrent |-> cb.shaders = list /\ cb.objects = objs,
                 sourceTextures |-> r.sourceTextures,
                 prevTime |-> IF timed # <<>> THEN lastDraw.time ELSE NoTime,
                 wallSince |-> IF timed # <<>> /\ lastDraw.time # NoTime
                                 THEN clock - lastDraw.wall ELSE 0,
                 playedSince |-> IF timed # <<>> /\ lastDraw.time # NoTime
                                   THEN playbackTime - lastDraw.played ELSE 0]
     /\ lastDraw' = IF timed # <<>>
                      THEN [time |-> timed[Len(timed)].time, wall |-> clock,
                            played |-> playbackTime]
                      ELSE lastDraw

NoRender ==
  /\ draws' = <<>>
  /\ tick' = NoTick
  /\ lastDraw' = lastDraw

----------------------------------------------------------------------------
(* React commit: the effects a state change triggers *)

\* Modular ShaderStudio.  "Setup WebGL when shaders change" runs first, then
\* "Start/stop rendering" (its dependency render changes with every state
\* change): render() is called directly while playing, otherwise the stored
\* handle is cancelled and cleared.
ModularCommit(list, objs, playing, loaded, uploadOk, gl) ==
  LET programs == IF list # shaders /\ gl THEN setupWebGL(list) ELSE programsRef
      unis == IF list # shaders /\ gl THEN unboundPrograms(programs) ELSE uniforms
      cb == Closure(list, objs, playing, loaded)
      r == render(cb, programs, rafQueue, animationFrameRef, uploadOk,
                  clock, playbackTime, gl)
  IN /\ playing => Len(rafQueue) < MaxPending
     /\ programsRef' = programs
     /\ glObjects' = IF list # shaders /\ gl
                       THEN setupObjects(glObjects, list) ELSE glObjects
     /\ IF playing
          THEN /\ rafQueue' = r.queue
               /\ animationFrameRef' = r.ref
               /\ uniforms' = bindUniforms(unis, programs, cb, r.draws)
               /\ Observe(r, cb, list, objs, playing, loaded)
          ELSE /\ rafQueue' = IF animationFrameRef # 0
                                THEN cancelAnimationFrame(rafQueue, animationFrameRef)
                                ELSE rafQueue
               /\ animationFrameRef' = 0
               /\ uniforms' = unis
               /\ NoRender
     /\ timeouts' = timeouts

\* Mutant: the delayed start is armed whenever playback is on.
startsLoop_Ungated(playing, loaded) == playing

\* "if (isPlaying && isVideoLoaded)" of the monolithic start/stop effect
startsLoop(playing, loaded) == playing /\ loaded

\* Monolithic ShaderStudio.  The effect on setupWebGL runs first.  The
\* start/stop effect's cleanup and its first statement cancel the stored
\* handle (which stays stored); setTimeout(startRender, 16) is armed when
\* playing and loaded, and no clearTimeout exists.
MonolithicCommit(list, objs, playing, loaded, gl) ==
  LET programs == IF list # shaders /\ gl THEN setupWebGL(list) ELSE programsRef
      cb == Closure(list, objs, playing, loaded)
  IN /\ startsLoop(playing, loaded) => Len(timeouts) < MaxPending
     /\ programsRef' = programs
     /\ uniforms' = IF list # shaders /\ gl
                      THEN unboundPrograms(programs) ELSE uniforms
     /\ glObjects' = IF list # shaders /\ gl
                       THEN setupObjects(glObjects, list) ELSE glObjects
     /\ rafQueue' = IF animationFrameRef # 0
                      THEN cancelAnimationFrame(rafQueue, animationFrameRef)
                      ELSE rafQueue
     /\ animationFrameRef' = animationFrameRef
     /\ timeouts' = IF startsLoop(playing, loaded)
                      THEN Append(timeouts, cb) ELSE timeouts
     /\ NoRender

\* canvas.getContext('webgl') of a setupWebGL run: the context obtained
\* before is returned again; without one the call returns a context or null.
\* setupWebGL runs again only when the pass list changed.
getContext(list) ==
  IF glRef THEN {TRUE}
  ELSE IF list # shaders THEN BOOLEAN
  ELSE {FALSE}

Commit(list, objs, playing, loaded, uploadOk) ==
  /\ mounted
  /\ component \in {"modular", "monolithic"}
  /\ shaders' = list
  /\ objects' = objs
  /\ isPlaying' = playing
  /\ isVideoLoaded' = loaded
  /\ \E gl \in getContext(list) :
       /\ glRef' = gl
       /\ IF component = "modular"
            THEN ModularCommit(list, objs, playing, loaded, uploadOk, gl)
            ELSE MonolithicCommit(list, objs, playing, loaded, gl)
  /\ UNCHANGED <<component, clock, playbackTime, mounted, videoReady,
                 usingFallback, videoFrameRef, playPromise>>

\* A commit in which only the ready flag changed.
CommitSource(loaded, uploadOk) ==
  Commit(shaders, objects, isPlaying, loaded, uploadOk)

\* A commit in which the user changed the pass list or the object list.
Mutation(list, objs, uploadOk) ==
  /\ edits < MaxEdits
  /\ edits' = edits + 1
  /\ Commit(list, objs, isPlaying, isVideoLoaded, uploadOk)
  /\ UNCHANGED <<srcObject, animationId, dateNow>>

\* Date.now().toString() in an add handler: the clock reads what it read
\* at the previous add (the same millisecond) or a later value.
DateNow == {dateNow, dateNow + 1} \ {0}

\* A commit after an add handler that read the clock as now.
Creation(list, objs, now, uploadOk) ==
  /\ edits < MaxEdits
  /\ edits' = edits + 1
  /\ dateNow' = now
  /\ Commit(list, objs, isPlaying, isVideoLoaded, uploadOk)
  /\ UNCHANGED <<srcObject, animationId>>

----------------------------------------------------------------------------
(* Initial state: the component is mounted, its effects have run once *)

\* A context that went through the setupWebGL run of the mount effect (or
\* none, when getContext returned null), and no object or pass added yet
FreshContext ==
  /\ uniforms = unboundPrograms(programsRef)
  /\ glObjects = IF glRef THEN setupObjects(NoObjects, shaders) ELSE NoObjects
  /\ dateNow = 0

\* The frame source before any media event, in a mounted component
SourceIdle ==
  /\ mounted = TRUE
  /\ videoReady = FALSE
  /\ usingFallback = FALSE
  /\ videoFrameRef = FALSE
  /\ playPromise = FALSE
  /\ srcObject = FALSE
  /\ animationId = 0

Init ==
  /\ component \in {"modular", "monolithic"}
  /\ shaders = defaultShaders
  /\ objects = <<>>
  /\ isPlaying = FALSE
  /\ isVideoLoaded = FALSE
  /\ glRef = TRUE
  /\ programsRef = setupWebGL(defaultShaders)
  /\ FreshContext
  /\ animationFrameRef = 0
  /\ rafQueue = <<>>
  /\ timeouts = <<>>
  /\ clock = 0
  /\ playbackTime = 0
  /\ draws = <<>>
  /\ tick = NoTick
  /\ lastDraw = [time |-> NoTime, wall |-> 0, played |-> 0]
  /\ edits = 0
  /\ SourceIdle

----------------------------------------------------------------------------
(* Actions *)

\* togglePlay: setIsPlaying(!isPlaying)
togglePlay ==
  /\ \E uploadOk \in BOOLEAN :
       Commit(shaders, objects, ~isPlaying, isVideoLoaded, uploadOk)
  /\ UNCHANGED <<edits, srcObject, animationId, dateNow>>

\* handleLoadedData: setIsVideoLoaded(true); a repeated loadeddata event
\* sets the value the state already has and causes no commit.
handleLoadedData ==
  /\ ~isVideoLoaded
  /\ \E uploadOk \in BOOLEAN :
       Commit(shaders, objects, isPlaying, TRUE, uploadOk)
  /\ UNCHANGED <<edits, srcObject, animationId, dateNow>>

\* updateShader(id, {enabled}) / the Enabled checkbox
updateShaderEnabled ==
  \E i \in 1..Len(shaders), uploadOk \in BOOLEAN :
    Mutation([shaders EXCEPT ![i].enabled = ~shaders[i].enabled], objects, uploadOk)

\* updateShader(id, {fragmentShader}) from the shader editor
updateShaderSource ==
  /\ component = "modular"
  /\ \E i \in 1..Len(shaders), uploadOk \in BOOLEAN :
       \E source \in FragmentSources \ {shaders[i].fragmentShader} :
         Mutation([shaders EXCEPT ![i].fragmentShader = source], objects, uploadOk)

\* deleteShader(id): prev.filter(shader => shader.id !== id)
deleteShader ==
  /\ component = "modular"
  /\ \E i \in 1..Len(shaders), uploadOk \in BOOLEAN :
       Mutation(SelectSeq(shaders, LAMBDA s : s.id # shaders[i].id), objects, uploadOk)

\* addCustomShader(name, fragmentShader): appended, enabled, fresh id
addCustomShader ==
  \E source \in FragmentSources, now \in DateNow, uploadOk \in BOOLEAN :
    Creation(Append(shaders, [id |-> CustomIds[now],
                              fragmentShader |-> source, enabled |-> TRUE]),
             objects, now, uploadOk)

\* Mutant: the dragged pass and the pass at the drop position change places.
splice_Swap(list, dragIndex, hoverIndex) ==
  [k \in 1..Len(list) |->
     IF k = dragIndex THEN list[hoverIndex]
     ELSE IF k = hoverIndex THEN list[dragIndex]
     ELSE list[k]]

\* newShaders.splice(dragIndex, 1); newShaders.splice(hoverIndex, 0, dragged)
splice(list, dragIndex, hoverIndex) ==
  LET removed == SubSeq(list, 1, dragIndex - 1) \o SubSeq(list, dragIndex + 1, Len(list))
  IN SubSeq(removed, 1, hoverIndex - 1) \o <<list[dragIndex]>>
       \o SubSeq(removed, hoverIndex, Len(removed))

\* reorderShaders(dragIndex, hoverIndex), called by handleDrop when the
\* indices differ
reorderShaders ==
  /\ component = "modular"
  /\ \E dragIndex \in 1..Len(shaders), hoverIndex \in 1..Len(shaders), uploadOk \in BOOLEAN :
       /\ dragIndex # hoverIndex
       /\ Mutation(splice(shaders, dragIndex, hoverIndex), objects, uploadOk)

\* The canvas positions clicked with a drawing tool selected
ClickPoints == { <<150, 125>> }

\* The object addObject(x, y) creates
newObject(now, x, y) ==
  [id |-> CustomIds[now], x |-> x - 50, y |-> y - 25, width |-> 100,
   height |-> 50, rotation |-> 0,
   color |-> <<"#", "f", "f", "0", "0", "0", "0">>, visible |-> TRUE]

\* addObject: setObjects(prev => [...prev, newObject])
addObject ==
  \E click \in ClickPoints, now \in DateNow, uploadOk \in BOOLEAN :
    Creation(shaders, Append(objects, newObject(now, click[1], click[2])),
             now, uploadOk)

\* prev.filter(obj => obj.id !== id)
filterObjects(objs, id) == SelectSeq(objs, LAMBDA o : o.id # id)

\* deleteObject(id) from the object list of the sidebar
deleteObject ==
  \E i \in 1..Len(objects), uploadOk \in BOOLEAN :
    Mutation(shaders, filterObjects(objects, objects[i].id), uploadOk)

\* The browser runs the oldest pending animation-frame callback.
animationFrame ==
  /\ rafQueue # <<>>
  /\ \E uploadOk \in BOOLEAN :
       LET cb == Head(rafQueue).cb
           r == IF component = "modular"
                  THEN render(cb, programsRef, Tail(rafQueue), animationFrameRef,
                              uploadOk, clock, playbackTime, glRef /\ mounted)
                  ELSE renderMonolithic(cb, programsRef, Tail(rafQueue),
                                        animationFrameRef, uploadOk, clock,
                                        playbackTime, glRef /\ mounted)
       IN /\ rafQueue' = r.queue
          /\ animationFrameRef' = r.ref
          /\ uniforms' = bindUniforms(uniforms, programsRef, cb, r.draws)
          /\ Observe(r, cb, shaders, objects, isPlaying, isVideoLoaded)
  /\ UNCHANGED <<component, shaders, objects, isPlaying, isVideoLoaded, glRef,
                 programsRef, timeouts, clock, playbackTime, edits, mounted,
                 sourceVars, glObjects, dateNow>>

\* startRender, 16 ms after the monolithic start/stop effect armed it
startRender ==
  /\ timeouts # <<>>
  /\ Len(rafQueue) < MaxPending
  /\ rafQueue' = requestAnimationFrame(rafQueue, animationFrameRef, Head(timeouts))
  /\ animationFrameRef' = requestId(rafQueue, animationFrameRef)
  /\ timeouts' = Tail(timeouts)
  /\ NoRender
  /\ UNCHANGED <<component, shaders, objects, isPlaying, isVideoLoaded, glRef,
                 programsRef, clock, playbackTime, edits, mounted, sourceVars,
                 uniforms, glObjects, dateNow>>

\* Time passes; the playback position moves only while playing.
advanceClock ==
  /\ clock < MaxClock
  /\ clock' = clock + 1
  /\ playbackTime' = IF isPlaying THEN playbackTime + 1 ELSE playbackTime
  /\ NoRender
  /\ UNCHANGED <<component, shaders, objects, isPlaying, isVideoLoaded, glRef,
                 programsRef, animationFrameRef, rafQueue, timeouts, edits,
                 mounted, sourceVars, uniforms, glObjects, dateNow>>

----------------------------------------------------------------------------
(* Frame source: useVideoManager and useVideoCanvasRenderer *)

\* Mutant: switching to the fallback clears the ready flag.
createFallbackAnimation_Reset(chains) ==
  [animationId |-> chains + 1, isVideoLoaded |-> FALSE]

\* createFallbackAnimation (and the same code inside handleError): animate()
\* draws once and requests itself, then setIsVideoLoaded(true); the returned
\* cancel function is dropped by both callers.
createFallbackAnimation(chains) ==
  [animationId |-> chains + 1, isVideoLoaded |-> TRUE]

\* Mutant: a fallback frame is drawn but the next one is not requested.
animateFrame_Once(chains) == chains - 1

\* animate: "animationId = requestAnimationFrame(animate)" at its end, so
\* the number of pending fallback callbacks is the same after a frame.
animateFrame(chains) == chains

\* useVideoManager.handleError: the media element reports a failure (once
\* for a source); the fallback animation starts and its stream becomes the
\* video's srcObject.  setIsVideoLoaded with the value the state already
\* has causes no commit.
handleError ==
  /\ mounted
  /\ component \in {"modular", "monolithic"}
  /\ ~srcObject
  /\ LET fallback == createFallbackAnimation(animationId)
     IN /\ animationId' = fallback.animationId
        /\ IF fallback.isVideoLoaded = isVideoLoaded
             THEN /\ NoRender
                  /\ srcObject' = TRUE
                  /\ UNCHANGED <<component, shaders, objects, isPlaying,
                                 isVideoLoaded, glRef, programsRef,
                                 animationFrameRef, rafQueue, timeouts, clock,
                                 playbackTime, edits, mounted, videoReady,
                                 usingFallback, videoFrameRef, playPromise,
                                 uniforms, glObjects, dateNow>>
             ELSE /\ \E uploadOk \in BOOLEAN :
                       CommitSource(fallback.isVideoLoaded, uploadOk)
                  /\ srcObject' = TRUE
                  /\ UNCHANGED <<edits, dateNow>>

\* The browser runs a pending fallback animate callback.
animate ==
  /\ animationId > 0
  /\ animationId' = animateFrame(animationId)
  /\ NoRender
  /\ UNCHANGED <<component, shaders, objects, isPlaying, isVideoLoaded, glRef,
                 programsRef, animationFrameRef, rafQueue, timeouts, clock,
                 playbackTime, edits, mounted, videoReady, usingFallback,
                 videoFrameRef, playPromise, srcObject, uniforms, glObjects,
                 dateNow>>

\* What the "canvas" component leaves alone in every frame-source step: its
\* renderer is not in the sources.
CanvasUnchanged ==
  /\ NoRender
  /\ UNCHANGED <<component, shaders, objects, glRef, programsRef,
                 animationFrameRef, rafQueue, timeouts, clock, playbackTime,
                 edits, mounted, srcObject, uniforms, glObjects, dateNow>>

\* The play/pause effect of useVideoCanvasRenderer for the state after a
\* commit: skipped while usingFallback or not videoReady; play() leaves a
\* promise pending, pause() rejects the pending one and cancels renderFrame.
playPauseEffect(playing, ready, fallback, promise, frame) ==
  IF fallback \/ ~ready THEN [playPromise |-> promise, videoFrameRef |-> frame]
  ELSE IF playing THEN [playPromise |-> TRUE, videoFrameRef |-> frame]
  ELSE [playPromise |-> FALSE, videoFrameRef |-> FALSE]

\* setIsPlaying(!isPlaying) in the "canvas" component
setIsPlaying ==
  /\ mounted
  /\ component = "canvas"
  /\ isPlaying' = ~isPlaying
  /\ LET e == playPauseEffect(~isPlaying, videoReady, usingFallback,
                              playPromise, videoFrameRef)
     IN /\ playPromise' = e.playPromise
        /\ videoFrameRef' = e.videoFrameRef
  /\ CanvasUnchanged
  /\ UNCHANGED <<isVideoLoaded, videoReady, usingFallback, animationId>>

\* videoElement.onloadeddata: setVideoReady(true), setIsVideoLoaded(true);
\* the handler closes over the isPlaying of the first render (true) and
\* usingFallback = false, so it calls play(); the play/pause effect then
\* runs for the committed state.
onloadeddata ==
  /\ mounted
  /\ component = "canvas"
  /\ ~videoReady
  /\ ~usingFallback
  /\ videoReady' = TRUE
  /\ isVideoLoaded' = TRUE
  /\ LET e == playPauseEffect(isPlaying, TRUE, usingFallback, TRUE, videoFrameRef)
     IN /\ playPromise' = e.playPromise
        /\ videoFrameRef' = e.videoFrameRef
  /\ CanvasUnchanged
  /\ UNCHANGED <<isPlaying, usingFallback, animationId>>

\* videoElement.onerror: setUsingFallback(true); createFallbackAnimation().
\* The play/pause effect re-runs and returns at its first line, so a running
\* renderFrame loop is left as it is.
onerror ==
  /\ mounted
  /\ component = "canvas"
  /\ ~usingFallback
  /\ usingFallback' = TRUE
  /\ LET fallback == createFallbackAnimation(animationId)
     IN /\ animationId' = fallback.animationId
        /\ isVideoLoaded' = fallback.isVideoLoaded
  /\ CanvasUnchanged
  /\ UNCHANGED <<isPlaying, videoReady, videoFrameRef, playPromise>>

\* The pending play() promise resolves: startRendering cancels the stored
\* renderFrame handle and requests renderFrame.
startRendering ==
  /\ mounted
  /\ component = "canvas"
  /\ playPromise
  /\ playPromise' = FALSE
  /\ videoFrameRef' = TRUE
  /\ CanvasUnchanged
  /\ UNCHANGED <<isPlaying, isVideoLoaded, videoReady, usingFallback, animationId>>

\* The browser runs the pending renderFrame: the video frame is copied to
\* the offscreen canvas and renderFrame is requested again.
renderFrame ==
  /\ component = "canvas"
  /\ videoFrameRef
  /\ videoFrameRef' = TRUE
  /\ CanvasUnchanged
  /\ UNCHANGED <<isPlaying, isVideoLoaded, videoReady, usingFallback,
                 playPromise, animationId>>

\* The component is unmounted: React clears the canvas and video refs and
\* runs the effect cleanups.  The start/stop effect of the modular
\* ShaderStudio has none; the one of the monolithic component cancels the
\* stored handle (its timers are not cleared); the cleanup of
\* useVideoCanvasRenderer cancels renderFrame and pauses the video.  No
\* cleanup cancels the fallback animation.
unmount ==
  /\ mounted
  /\ mounted' = FALSE
  /\ rafQueue' = IF component = "monolithic" /\ animationFrameRef # 0
                   THEN cancelAnimationFrame(rafQueue, animationFrameRef)
                   ELSE rafQueue
  /\ videoFrameRef' = FALSE
  /\ playPromise' = FALSE
  /\ NoRender
  /\ UNCHANGED <<component, shaders, objects, isPlaying, isVideoLoaded, glRef,
                 programsRef, animationFrameRef, timeouts, clock, playbackTime,
                 edits, videoReady, usingFallback, srcObject, animationId,
                 uniforms, glObjects, dateNow>>

Next ==
  \/ togglePlay
  \/ handleLoadedData
  \/ updateShaderEnabled
  \/ updateShaderSource
  \/ deleteShader
  \/ addCustomShader
  \/ reorderShaders
  \/ addObject
  \/ deleteObject
  \/ animationFrame
  \/ startRender

Spec == Init /\ [][Next]_vars

\* Playback against the clock: the pass list stays as mounted and time
\* passes between the tasks.
NextTime ==
  \/ togglePlay
  \/ handleLoadedData
  \/ animationFrame
  \/ startRender
  \/ advanceClock

SpecTime == Init /\ [][NextTime]_vars

\* The pass pipeline over every pass list the user can arrange before the
\* first play: the enabled flags and (through the shader editor of the
\* modular component) the sources of the default passes, followed by up to
\* MaxCustom custom passes; no render callback is pending in such a state.
ArrangedLists(comp) ==
  UNION { { [i \in 1..n |->
               [id |-> IF i <= Len(defaultShaders) THEN defaultShaders[i].id
                       ELSE CustomIds[i - Len(defaultShaders)],
                fragmentShader |-> source[i], enabled |-> enabled[i]]] :
              source \in { f \in [1..n -> FragmentSources] :
                             comp = "monolithic" =>
                               \A i \in 1..Len(defaultShaders) :
                                 f[i] = defaultShaders[i].fragmentShader },
              enabled \in [1..n -> BOOLEAN] } :
          n \in Len(defaultShaders)..(Len(defaultShaders) + MaxCustom) }

InitPasses ==
  /\ component \in {"modular", "monolithic"}
  /\ shaders \in ArrangedLists(component)
  /\ objects = <<>>
  /\ isPlaying = FALSE
  /\ isVideoLoaded = FALSE
  /\ glRef = TRUE
  /\ programsRef = setupWebGL(shaders)
  /\ FreshContext
  /\ animationFrameRef = 0
  /\ rafQueue = <<>>
  /\ timeouts = <<>>
  /\ clock = 0
  /\ playbackTime = 0
  /\ draws = <<>>
  /\ tick = NoTick
  /\ lastDraw = [time |-> NoTime, wall |-> 0, played |-> 0]
  /\ edits = Len(shaders) - Len(defaultShaders)
  /\ SourceIdle

NextPasses ==
  \/ togglePlay
  \/ handleLoadedData
  \/ animationFrame
  \/ startRender

SpecPasses == InitPasses /\ [][NextPasses]_vars

\* Colours picked in the colour input of the sidebar (it yields #rrggbb in
\* lower case) and passed to updateObject(id, { color })
ColorSamples ==
  { <<"#", "f", "f", "6", "b", "6", "b">>, <<"#", "2", "3", "4", "5", "c", "d">> }

\* Objects on the canvas of the modular ShaderStudio: a pass written in the
\* shader editor that declares the object uniforms follows the default
\* passes, and up to MaxObjects objects were placed before the first play;
\* the video has loaded.
SampleObjects ==
  << [id |-> "o1", x |-> 100, y |-> 100, width |-> 100, height |-> 50, rotation |-> 0],
     [id |-> "o2", x |-> 300, y |-> 200, width |-> 200, height |-> 100, rotation |-> 45],
     [id |-> "o3", x |-> 0, y |-> 0, width |-> 800, height |-> 450, rotation |-> 180],
     [id |-> "o4", x |-> 700, y |-> 400, width |-> 1, height |-> 1, rotation |-> 270] >>

\* The object lists of up to MaxObjects objects with colours from Colors and
\* visible flags from Shown
PlacedObjects(Colors, Shown) ==
  UNION { { [i \in 1..n |->
               [id |-> SampleObjects[i].id, x |-> SampleObjects[i].x,
                y |-> SampleObjects[i].y, width |-> SampleObjects[i].width,
                height |-> SampleObjects[i].height,
                rotation |-> SampleObjects[i].rotation,
                color |-> color[i], visible |-> shown[i]]] :
              color \in [1..n -> Colors], shown \in [1..n -> Shown] } :
          n \in 0..MaxObjects }

InitObjects ==
  /\ component = "modular"
  /\ shaders = Append(defaultShaders, [id |-> CustomIds[1],
                                       fragmentShader |-> "edited",
                                       enabled |-> TRUE])
  /\ objects \in PlacedObjects({<<"#", "f", "f", "0", "0", "0", "0">>}, BOOLEAN)
  /\ isPlaying = FALSE
  /\ isVideoLoaded = TRUE
  /\ glRef = TRUE
  /\ programsRef = setupWebGL(shaders)
  /\ uniforms = unboundPrograms(programsRef)
  /\ glObjects = setupObjects(setupObjects(NoObjects, defaultShaders), shaders)
  /\ dateNow = 1
  /\ animationFrameRef = 0
  /\ rafQueue = <<>>
  /\ timeouts = <<>>
  /\ clock = 0
  /\ playbackTime = 0
  /\ draws = <<>>
  /\ tick = NoTick
  /\ lastDraw = [time |-> NoTime, wall |-> 0, played |-> 0]
  /\ edits = 0
  /\ SourceIdle

\* handleCanvasClick: addObject(x, y) with the click position
handleCanvasClick ==
  /\ edits < MaxChanges
  /\ addObject

\* The delete button of an object in the sidebar
objectRemoved ==
  /\ edits < MaxChanges
  /\ deleteObject

NextObjects ==
  \/ togglePlay
  \/ handleCanvasClick
  \/ objectRemoved
  \/ animationFrame

SpecObjects == InitObjects /\ [][NextObjects]_vars

\* The uniform binder over object lists of every sampled colour and
\* visibility (the Eye button calls updateObject(id, { visible: !visible })):
\* the lists stay as placed and edited, and the ticks bind them.
InitBinder ==
  /\ component \in {"modular", "monolithic"}
  /\ shaders = Append(defaultShaders, [id |-> CustomIds[1],
                                       fragmentShader |-> "edited",
                                       enabled |-> TRUE])
  /\ objects \in PlacedObjects(ColorSamples, BOOLEAN)
  /\ isPlaying = FALSE
  /\ isVideoLoaded = TRUE
  /\ glRef = TRUE
  /\ programsRef = setupWebGL(shaders)
  /\ uniforms = unboundPrograms(programsRef)
  /\ glObjects = setupObjects(setupObjects(NoObjects, defaultShaders), shaders)
  /\ dateNow = 1
  /\ animationFrameRef = 0
  /\ rafQueue = <<>>
  /\ timeouts = <<>>
  /\ clock = 0
  /\ playbackTime = 0
  /\ draws = <<>>
  /\ tick = NoTick
  /\ lastDraw = [time |-> NoTime, wall |-> 0, played |-> 0]
  /\ edits = 0
  /\ SourceIdle

NextBinder ==
  \/ togglePlay
  \/ animationFrame
  \/ startRender

SpecBinder == InitBinder /\ [][NextBinder]_vars

\* The frame source and the GL context may be unavailable: getContext can
\* return null at mount (programsRef then stays empty) and the video may not
\* have loaded when play is pressed.
InitSource ==
  /\ component \in {"modular", "monolithic"}
  /\ shaders = defaultShaders
  /\ objects = <<>>
  /\ isPlaying = FALSE
  /\ isVideoLoaded = FALSE
  /\ glRef \in BOOLEAN
  /\ programsRef = IF glRef THEN setupWebGL(defaultShaders) ELSE <<>>
  /\ FreshContext
  /\ animationFrameRef = 0
  /\ rafQueue = <<>>
  /\ timeouts = <<>>
  /\ clock = 0
  /\ playbackTime = 0
  /\ draws = <<>>
  /\ tick = NoTick
  /\ lastDraw = [time |-> NoTime, wall |-> 0, played |-> 0]
  /\ edits = 0
  /\ SourceIdle

NextSource ==
  \/ togglePlay
  \/ handleLoadedData
  \/ updateShaderEnabled
  \/ animationFrame
  \/ startRender

SpecSource == InitSource /\ [][NextSource]_vars

\* The frame source under load, error, play and pause events, in the three
\* components; the "canvas" component starts playing (useState(true)).
InitVideo ==
  /\ component \in {"modular", "monolithic", "canvas"}
  /\ shaders = defaultShaders
  /\ objects = <<>>
  /\ isPlaying = (component = "canvas")
  /\ isVideoLoaded = FALSE
  /\ glRef = TRUE
  /\ programsRef = setupWebGL(defaultShaders)
  /\ FreshContext
  /\ animationFrameRef = 0
  /\ rafQueue = <<>>
  /\ timeouts = <<>>
  /\ clock = 0
  /\ playbackTime = 0
  /\ draws = <<>>
  /\ tick = NoTick
  /\ lastDraw = [time |-> NoTime, wall |-> 0, played |-> 0]
  /\ edits = 0
  /\ SourceIdle

NextVideo ==
  \/ togglePlay
  \/ handleLoadedData
  \/ handleError
  \/ animationFrame
  \/ startRender
  \/ animate
  \/ setIsPlaying
  \/ onloadeddata
  \/ onerror
  \/ startRendering
  \/ renderFrame

SpecVideo == InitVideo /\ [][NextVideo]_vars

\* Drag and drop in the shader list of the modular component (the only one
\* with reorderShaders), starting from the default passes with any enabled
\* flags, while the render loop runs.
InitReorder ==
  /\ component = "modular"
  /\ shaders \in { l \in ArrangedLists("monolithic") : Len(l) = Len(defaultShaders) }
  /\ objects = <<>>
  /\ isPlaying = FALSE
  /\ isVideoLoaded = FALSE
  /\ glRef = TRUE
  /\ programsRef = setupWebGL(shaders)
  /\ FreshContext
  /\ animationFrameRef = 0
  /\ rafQueue = <<>>
  /\ timeouts = <<>>
  /\ clock = 0
  /\ playbackTime = 0
  /\ draws = <<>>
  /\ tick = NoTick
  /\ lastDraw = [time |-> NoTime, wall |-> 0, played |-> 0]
  /\ edits = 0
  /\ SourceIdle

\* handleDrop of the sidebar: a drop on another row calls reorderShaders
handleDrop ==
  /\ edits < MaxMoves
  /\ reorderShaders

NextReorder ==
  \/ togglePlay
  \/ handleDrop
  \/ animationFrame

SpecReorder == InitReorder /\ [][NextReorder]_vars

\* Teardown: the mounted ShaderStudio is used and then unmounted; the tasks
\* still queued in the browser run afterwards.
NextTeardown ==
  \/ togglePlay
  \/ handleLoadedData
  \/ updateShaderEnabled
  \/ animationFrame
  \/ startRender
  \/ unmount

SpecTeardown == Init /\ [][NextTeardown]_vars

----------------------------------------------------------------------------
(* Properties *)

\* A render call uploaded the source frame and ran its pass loop, and the
\* callback closed over the current pass list (the one setupWebGL compiled).
RenderedCurrent == tick.status = "rendered" /\ tick.fresh

DrewPass(id) == \E k \in 1..Len(draws) : draws[k].pass = id

\* C1: on a tick that uploaded a source frame, every enabled pass whose own
\* source compiled and linked in the last setupWebGL issues its draw call,
\* whatever the other passes of the list did.
C1_ValidPassesDraw ==
  RenderedCurrent =>
    \A i \in 1..Len(shaders) :
      (shaders[i].enabled /\ createProgram(shaders[i]) # NoProgram)
        => DrewPass(shaders[i].id)

\* C2: a pass whose current source failed to compile or link in the last
\* setupWebGL issues no draw call.
C2_FailedPassNeverDraws ==
  RenderedCurrent =>
    \A i \in 1..Len(shaders) :
      createProgram(shaders[i]) = NoProgram => ~DrewPass(shaders[i].id)

\* C3: in every draw call, the program used to draw pass p is the artifact
\* compiled from p's own current source.
C3_OwnProgram ==
  RenderedCurrent =>
    \A k \in 1..Len(draws), i \in 1..Len(shaders) :
      draws[k].pass = shaders[i].id =>
        draws[k].program = [id |-> shaders[i].id, src |-> shaders[i].fragmentShader]

\* C4: on a tick that uploaded the source frame, exactly one draw call
\* targets the visible output, it is the last one, and every earlier draw
\* call targets a pooled slot.
C4_OneScreenDrawLast ==
  RenderedCurrent =>
    /\ draws # <<>>
    /\ draws[Len(draws)].output = Screen
    /\ \A k \in 1..(Len(draws) - 1) : draws[k].output # Screen

\* C5: in no draw call is the texture bound as the pass input the texture
\* attached to the framebuffer bound as that draw's output.
C5_NoReadWriteHazard ==
  \A k \in 1..Len(draws) :
    draws[k].output # Screen => draws[k].input # attachedTexture(draws[k].output)

\* A tick with more than two executed passes and a skipped one, whose third
\* draw reads one pooled slot while writing the other.
C5_Witness ==
  /\ tick.status = "rendered"
  /\ Len(draws) >= 3
  /\ Len(draws) < Len(SelectSeq(shaders, LAMBDA s : s.enabled))
  /\ draws[3].input = 1
  /\ draws[3].output = 0

\* C6: the first executed pass of a tick reads the uploaded source frame and
\* each later one reads the image written by the draw call just before it.
C6_SequentialChain ==
  \A k \in 1..Len(draws) :
    draws[k].inputHolds = IF k = 1 THEN SourceFrame ELSE k - 1

\* A tick of four executed passes: the last reads slot 0 again, which by then
\* holds the image of the third draw.
C6_Witness ==
  /\ tick.status = "rendered"
  /\ Len(draws) = 4
  /\ draws[4].input = 0
  /\ draws[4].inputHolds = 3

\* C7: at most one render tick is pending at any moment.
C7_OnePendingTick == Len(rafQueue) <= 1

\* C8: while playback is paused no draw call is issued.
C8_NoDrawWhilePaused == ~isPlaying => draws = <<>>

Count(list, e) == Cardinality({k \in 1..Len(list) : list[k] = e})

Without(list, k) == SubSeq(list, 1, k - 1) \o SubSeq(list, k + 1, Len(list))

C12_TicksReadCurrentLists == tick.status # "none" => tick.readsCurrent

\* C13: when no pass is both enabled and backed by a program compiled from
\* its own source, a tick that uploaded the source frame issues exactly one
\* draw call: the pass-through copy of the source frame to the screen.
C13_IdentityWhenNothingValid ==
  (/\ RenderedCurrent
   /\ \A i \in 1..Len(shaders) :
        ~(shaders[i].enabled /\ createProgram(shaders[i]) # NoProgram))
    => draws = << [pass |-> "identity", program |-> PassThrough,
                   input |-> VideoTexture, inputHolds |-> SourceFrame,
                   output |-> Screen, time |-> NoTime] >>

\* C14: a render call made while playing that finds the GL context (or the
\* source) unavailable issues no draw call and leaves a next tick requested.
C14_UnavailableTickReschedules ==
  (tick.status = "notReady" /\ tick.fresh /\ isPlaying)
    => draws = <<>> /\ rafQueue # <<>>

\* C15: a render call whose texImage2D upload of the source frame throws
\* issues no draw call and, while playing, leaves a next tick requested, in
\* both components.
C15_UploadFailureRetries ==
  (tick.status = "uploadFailed" /\ tick.fresh /\ isPlaying)
    => draws = <<>> /\ rafQueue # <<>>

\* C16: once the ready flag isVideoLoaded is true, no load, error, play or
\* pause event sets it back to false.
C16_ReadyIsMonotonic == [][isVideoLoaded => isVideoLoaded']_vars

\* The source loaded, then failed, and playback was paused: the flag is
\* still set.
C16_Witness ==
  /\ component = "canvas"
  /\ videoReady
  /\ usingFallback
  /\ ~isPlaying
  /\ isVideoLoaded

\* C17: the frame-copy loop of startRendering and the fallback animation
\* loop of createFallbackAnimation are never pending at the same time.
C17_OneSourceMode == ~(videoFrameRef /\ animationId > 0)

Uploaded == tick.status \in {"rendered", "uploadFailed"}

C20_NoTickAfterUnmount ==
  ~mounted => (rafQueue = <<>> /\ timeouts = <<>> /\ tick.status = "none")

----------------------------------------------------------------------------
(* Properties of the uniform binder *)

\* The programs that went through the object loop on the tick just run,
\* paired with the object positions (1-based) whose uniforms they declare;
\* the tick read the current pass list and object list.
BoundSlots ==
  IF tick.status = "rendered" /\ tick.readsCurrent
    THEN { s \in (1..Len(programsRef)) \X (1..Len(objects)) :
             /\ \E d \in 1..Len(draws) : findIndex(shaders, draws[d].pass) = s[1]
             /\ declaresObject(programsRef[s[1]], s[2] - 1) }
    ELSE {}

\* C21: the object uniforms a pass is given do not depend on the visible
\* flags: what a tick binds for an object is what it binds for the object
\* with the opposite flag.
C21_VisibleIgnored ==
  \A s \in BoundSlots :
    uniforms[s[1]][uniformSlot(s[2] - 1)]
      = objectUniforms([objects[s[2]] EXCEPT !.visible = ~objects[s[2]].visible])

\* A tick bound the uniforms of a hidden object, which the overlay leaves
\* out.
C21_Witness ==
  \E s \in BoundSlots :
    /\ ~objects[s[2]].visible
    /\ uniforms[s[1]][uniformSlot(s[2] - 1)] # ZeroUniforms
    /\ Len(drawObjects(objects, TRUE)) < Len(objects)

\* An object with x=100, y=100, width=100, height=50
IsExample(obj) ==
  obj.x = 100 /\ obj.y = 100 /\ obj.width = 100 /\ obj.height = 50

\* C22 as stated: the example object is bound to pos = (0.21875, 0.7222...).
C22_ExamplePosAsStated ==
  \A s \in BoundSlots :
    IsExample(objects[s[2]]) =>
      /\ SameRatio(uniforms[s[1]][uniformSlot(s[2] - 1)].pos[1], Ratio(21875, 100000))
      /\ SameRatio(uniforms[s[1]][uniformSlot(s[2] - 1)].pos[2], Ratio(325, 450))

\* C22: pos is ((x + width/2) / 800, 1 - (y + height/2) / 450) for every
\* bound object, which for the example object is (150/800, 1 - 125/450),
\* that is (0.1875, 0.7222...).
C22_PosIsFlippedCentre ==
  \A s \in BoundSlots :
    LET obj == objects[s[2]]
        pos == uniforms[s[1]][uniformSlot(s[2] - 1)].pos
    IN /\ pos[1][1] * (2 * CanvasWidth) = (2 * obj.x + obj.width) * pos[1][2]
       /\ (pos[2][2] - pos[2][1]) * (2 * CanvasHeight)
            = (2 * obj.y + obj.height) * pos[2][2]
       /\ IsExample(obj) =>
            /\ SameRatio(pos[1], Ratio(1875, 10000))
            /\ SameRatio(pos[2], Ratio(13, 18))

\* A tick bound the example object.
C22_Witness ==
  \E s \in BoundSlots :
    /\ IsExample(objects[s[2]])
    /\ uniforms[s[1]][uniformSlot(s[2] - 1)] # ZeroUniforms

\* The byte written by the two hexadecimal digits at positions k and k + 1
\* of a colour text #rrggbb (position 1 is the '#')
HexByte(color, k) == 16 * hexDigit(color[k]) + hexDigit(color[k + 1])

\* C23: the colour bound for an object is (rr/255, gg/255, bb/255), each
\* component within [0, 1]; "#ff6b6b" gives (255/255, 107/255, 107/255).
C23_ColorDecoded ==
  \A s \in BoundSlots :
    LET hex == objects[s[2]].color
        color == uniforms[s[1]][uniformSlot(s[2] - 1)].color
    IN /\ \A c \in 1..3 :
            /\ color[c] = Ratio(HexByte(hex, 2 * c), 255)
            /\ 0 <= color[c][1] /\ color[c][1] <= color[c][2]
       /\ hex = <<"#", "f", "f", "6", "b", "6", "b">> =>
            color = <<Ratio(255, 255), Ratio(107, 255), Ratio(107, 255)>>

\* A tick bound an object coloured #ff6b6b.
C23_Witness ==
  \E s \in BoundSlots :
    /\ objects[s[2]].color = <<"#", "f", "f", "6", "b", "6", "b">>
    /\ uniforms[s[1]][uniformSlot(s[2] - 1)].color[2] = Ratio(107, 255)

----------------------------------------------------------------------------
(* Properties of the pass list and of the GPU objects *)

\* C24: the draw calls of a tick follow the order of the pass list, a
\* disabled pass issues none, and the k-th draw call that targets the pool
\* writes the slot of index k - 1: the passes left out advance nothing.
C24_ListOrderDisabledSkipped ==
  (tick.status = "rendered" /\ tick.readsCurrent) =>
    /\ \A k \in 1..Len(draws) :
         \/ draws[k].pass = "identity"
         \/ \E i \in 1..Len(shaders) :
              shaders[i].id = draws[k].pass /\ shaders[i].enabled
    /\ \A j \in 1..Len(draws), k \in 1..Len(draws) :
         j < k => findIndex(shaders, draws[j].pass) < findIndex(shaders, draws[k].pass)
    /\ \A k \in 1..Len(draws) :
         draws[k].output # Screen => draws[k].output = (k - 1) % PingPong

\* A tick in which a disabled pass sits between two passes that drew one
\* after the other, the first into slot 0.
C24_Witness ==
  /\ tick.status = "rendered"
  /\ Len(draws) >= 2
  /\ draws[1].output = 0
  /\ \E j \in 1..Len(shaders) :
       /\ ~shaders[j].enabled
       /\ findIndex(shaders, draws[1].pass) < j
       /\ j < findIndex(shaders, draws[2].pass)

\* C25: every draw call of a pass uses a program that is alive (held in
\* programsRef since the last setupWebGL) and that was compiled from the
\* source the pass has now.
C25_DrawsUseRebuiltProgram ==
  RenderedCurrent =>
    \A k \in 1..Len(draws) :
      draws[k].pass # "identity" =>
        /\ \E p \in 1..Len(programsRef) : programsRef[p] = draws[k].program
        /\ \A i \in 1..Len(shaders) :
             shaders[i].id = draws[k].pass =>
               draws[k].program.src = shaders[i].fragmentShader

\* Every program a tick put in use holds, for each object position it
\* declares, the values of the object at that position of the list read.
BindsByPosition ==
  \A s \in BoundSlots : uniforms[s[1]][s[2]] = objectUniforms(objects[s[2]])

\* The position in SampleObjects of the placed object with this id; 0 for
\* an object added later
PlacedAs(id) ==
  IF \E m \in 1..Len(SampleObjects) : SampleObjects[m].id = id
    THEN CHOOSE m \in 1..Len(SampleObjects) : SampleObjects[m].id = id
    ELSE 0

\* The placed objects in front of position m that were deleted since
Deleted(m) ==
  { n \in 1..(m - 1) : \A i \in 1..Len(objects) : objects[i].id # SampleObjects[n].id }

\* C26: a tick binds u_object{i}_* to the object at position i of the list
\* it reads; an object placed as the m-th stands one index lower for every
\* object deleted in front of it, and the objects added later follow the
\* placed ones, which keep their indices.
C26_AddressedByPosition ==
  /\ BindsByPosition
  /\ \A i \in 1..Len(objects) :
       IF PlacedAs(objects[i].id) # 0
         THEN i = PlacedAs(objects[i].id) - Cardinality(Deleted(PlacedAs(objects[i].id)))
         ELSE \A j \in (i + 1)..Len(objects) : PlacedAs(objects[j].id) = 0

\* The first of two placed objects was deleted and a tick bound the other,
\* formerly at index 1, to the names of index 0.
C26_Witness ==
  /\ Len(objects) = 1
  /\ objects[1].id = SampleObjects[2].id
  /\ \E s \in BoundSlots :
       /\ s[2] = 1
       /\ uniforms[s[1]][1] = objectUniforms(objects[1])
       /\ uniforms[s[1]][1] # ZeroUniforms

\* C27: the ids of the passes of the pass list are pairwise distinct, and
\* so are the ids of the placed objects.
C27_IdsDistinct ==
  /\ \A i \in 1..Len(shaders), j \in 1..Len(shaders) :
       i # j => shaders[i].id # shaders[j].id
  /\ \A i \in 1..Len(objects), j \in 1..Len(objects) :
       i # j => objects[i].id # objects[j].id

\* C28: on a tick that read the current object list of n objects, the
\* programs it put in use hold nothing for the object uniforms of index n
\* and above that they declare: no value bound on an earlier tick, for an
\* object since deleted or moved to a lower index, is left in them.
C28_NoStaleObjectInputs ==
  (tick.status = "rendered" /\ tick.readsCurrent) =>
    \A k \in 1..Len(programsRef), j \in (Len(objects) + 1)..MaxObjects :
      ( /\ \E d \in 1..Len(draws) : findIndex(shaders, draws[d].pass) = k
        /\ declaresObject(programsRef[k], j - 1) )
        => uniforms[k][j] = ZeroUniforms

\* C29: when a task has run, no per-tick source texture created by its
\* render call is alive.
C29_SourceTextureFreed == tick.sourceTextures = 0

\* C30: the GPU objects alive are those one setupWebGL run creates for the
\* current pass list, however many runs there have been.
C30_ObjectsFollowPassList ==
  glRef => glObjects = setupObjects(NoObjects, shaders)

====
